---- MODULE Spec2Model ----
(***************************************************************************)
(* Model of the escrow program: the Escrow record and its Pack codec       *)
(* (src/src/state.rs), the error values (src/src/error.rs) and the two     *)
(* instruction handlers process_init_escrow and process_exchange           *)
(* (src/src/process.rs), together with the parts of the token ledger, the  *)
(* rent predicate and the transaction host that the handlers call.         *)
(***************************************************************************)
EXTENDS Integers, Sequences, FiniteSets, TLC

VARIABLES
    accounts,   \* key -> [lamports, owner, data, token]: the accounts on chain
    last,       \* the transaction the host has just processed, NoTx when idle
    justInit,   \* the escrow account of the immediately preceding successful Init
    exchanged   \* the escrow accounts on which an Exchange has succeeded

vars == <<accounts, last, justInit, exchanged>>

(***************************************************************************)
(* u64: four 16-bit limbs, least significant first, so that the full       *)
(* 64-bit width is kept.                                                   *)
(***************************************************************************)
LimbBase == 65536

U64(n) == <<n % LimbBase, (n \div LimbBase) % LimbBase, 0, 0>>

U64_MAX == <<LimbBase - 1, LimbBase - 1, LimbBase - 1, LimbBase - 1>>

None == [some |-> FALSE, v |-> U64(0)]

Some(x) == [some |-> TRUE, v |-> x]

\* u64::checked_add: None when the sum does not fit in 64 bits
checked_add(a, b) ==
    LET s1 == a[1] + b[1]
        s2 == a[2] + b[2] + (s1 \div LimbBase)
        s3 == a[3] + b[3] + (s2 \div LimbBase)
        s4 == a[4] + b[4] + (s3 \div LimbBase)
    IN  IF s4 \div LimbBase > 0
        THEN None
        ELSE Some(<<s1 % LimbBase, s2 % LimbBase, s3 % LimbBase, s4 % LimbBase>>)

\* a < b on u64
U64Less(a, b) ==
    \E i \in 1..4 : a[i] < b[i] /\ \A j \in (i + 1)..4 : a[j] = b[j]

\* u64::checked_sub: None when a < b
checked_sub(a, b) ==
    LET d1 == a[1] - b[1]
        w1 == IF d1 < 0 THEN 1 ELSE 0
        d2 == a[2] - b[2] - w1
        w2 == IF d2 < 0 THEN 1 ELSE 0
        d3 == a[3] - b[3] - w2
        w3 == IF d3 < 0 THEN 1 ELSE 0
        d4 == a[4] - b[4] - w3
    IN  IF U64Less(a, b)
        THEN None
        ELSE Some(<<d1 + w1 * LimbBase, d2 + w2 * LimbBase,
                    d3 + w3 * LimbBase, d4>>)

\* mutant: the eight bytes most significant first
to_be_bytes(x) ==
    <<x[4] \div 256, x[4] % 256, x[3] \div 256, x[3] % 256,
      x[2] \div 256, x[2] % 256, x[1] \div 256, x[1] % 256>>

\* u64::to_le_bytes: eight bytes, least significant first
to_le_bytes(x) ==
    <<x[1] % 256, x[1] \div 256, x[2] % 256, x[2] \div 256,
      x[3] % 256, x[3] \div 256, x[4] % 256, x[4] \div 256>>

\* u64::from_le_bytes
from_le_bytes(b) ==
    <<b[1] + 256 * b[2], b[3] + 256 * b[4], b[5] + 256 * b[6], b[7] + 256 * b[8]>>

(***************************************************************************)
(* Pubkey: 32 bytes.  The named keys differ in their first byte.           *)
(***************************************************************************)
PUBKEY_BYTES == 32

Key(n) == [i \in 1..PUBKEY_BYTES |-> IF i = 1 THEN n ELSE 0]

NoKey == Key(0)
Alice == Key(1)
Bob == Key(2)
MintX == Key(3)
MintY == Key(4)
TempX1 == Key(5)
TempX2 == Key(6)
AliceY == Key(7)
BobY == Key(8)
BobX == Key(9)
Escrow1 == Key(10)
Escrow2 == Key(11)
TOKEN_PROGRAM_ID == Key(12)
PROGRAM_ID == Key(13)
SYSTEM_PROGRAM_ID == Key(14)

Wallets == {Alice, Bob}
TokenAccounts == {TempX1, TempX2, AliceY, BobY, BobX}
EscrowAccounts == {Escrow1, Escrow2}
AccountKeys == Wallets \cup TokenAccounts \cup EscrowAccounts

\* Pubkey::find_program_address(&[b"escrow"], program_id): a function of the
\* program id alone; the address is off-curve, so it is no wallet's key.
BUMP_SEED == 255

find_program_address(program_id) ==
    [pda |-> [i \in 1..PUBKEY_BYTES |->
                 IF i = PUBKEY_BYTES THEN BUMP_SEED ELSE program_id[i]],
     bump_seed |-> BUMP_SEED]

(***************************************************************************)
(* Escrow and its Pack implementation (state.rs).                          *)
(***************************************************************************)
LEN == 1 + 32 + 32 + 32 + 8

\* struct Escrow
Escrow(is_initialized, initializer, temp, receive, amount) ==
    [is_initialized |-> is_initialized,
     initializer_pubkey |-> initializer,
     temp_token_account_pubkey |-> temp,
     initializer_token_to_receive_account_pubkey |-> receive,
     expected_ammount |-> amount]

NoEscrow == Escrow(FALSE, NoKey, NoKey, NoKey, U64(0))

Decoded(e) == [err |-> "Ok", escrow |-> e]

DecodeErr(e) == [err |-> e, escrow |-> NoEscrow]

\* mutant: every non-zero first byte read as true
unpack_from_slice_NonZeroIsTrue(src) ==
    LET is_initialized == SubSeq(src, 1, 1)
        initializer_pubkey == SubSeq(src, 2, 33)
        temp_token_account_pubkey == SubSeq(src, 34, 65)
        initializer_token_to_receive_account_pubkey == SubSeq(src, 66, 97)
        expected_amount == SubSeq(src, 98, 105)
    IN  IF Len(src) < LEN THEN DecodeErr("Panic")
        ELSE Decoded(Escrow(is_initialized[1] # 0,
                            initializer_pubkey,
                            temp_token_account_pubkey,
                            initializer_token_to_receive_account_pubkey,
                            from_le_bytes(expected_amount)))

\* Pack::unpack_from_slice: split at 1, 32, 32, 32, 8; byte 0 must be 0 or 1.
\* array_ref! takes the first LEN bytes and panics on a shorter slice.
unpack_from_slice(src) ==
    LET is_initialized == SubSeq(src, 1, 1)
        initializer_pubkey == SubSeq(src, 2, 33)
        temp_token_account_pubkey == SubSeq(src, 34, 65)
        initializer_token_to_receive_account_pubkey == SubSeq(src, 66, 97)
        expected_amount == SubSeq(src, 98, 105)
    IN  IF Len(src) < LEN THEN DecodeErr("Panic")
        ELSE IF is_initialized[1] \notin {0, 1}
        THEN DecodeErr("InvalidAccountData")
        ELSE Decoded(Escrow(is_initialized[1] = 1,
                            initializer_pubkey,
                            temp_token_account_pubkey,
                            initializer_token_to_receive_account_pubkey,
                            from_le_bytes(expected_amount)))

\* Pack::pack_into_slice
pack_into_slice(e) ==
    <<IF e.is_initialized THEN 1 ELSE 0>>
        \o e.initializer_pubkey
        \o e.temp_token_account_pubkey
        \o e.initializer_token_to_receive_account_pubkey
        \o to_le_bytes(e.expected_ammount)

\* Pack::unpack_unchecked: the length check, then unpack_from_slice
unpack_unchecked(input) ==
    IF Len(input) # LEN
    THEN DecodeErr("InvalidAccountData")
    ELSE unpack_from_slice(input)

\* mutant: the record's flag not required
unpack_AnyFlag(input) == unpack_unchecked(input)

\* Pack::unpack: unpack_unchecked, then the record must be initialized
unpack(input) ==
    LET value == unpack_unchecked(input)
    IN  IF value.err # "Ok" THEN value
        ELSE IF ~value.escrow.is_initialized
        THEN DecodeErr("UninitializedAccount")
        ELSE value

\* Pack::pack: the destination must have exactly LEN bytes
pack(e, dst) ==
    IF Len(dst) # LEN
    THEN [err |-> "InvalidAccountData", data |-> dst]
    ELSE [err |-> "Ok", data |-> pack_into_slice(e)]

(***************************************************************************)
(* Accounts.  data holds the bytes of an account whose layout this program *)
(* defines; token holds the token ledger's own record of a token account   *)
(* (spl_token::state::Account), which the program reads through            *)
(* TokenAccount::unpack and changes only through calls into the ledger.    *)
(***************************************************************************)
Token(mint, owner, amount, initialized) ==
    [mint |-> mint, owner |-> owner, amount |-> amount, initialized |-> initialized]

NoToken == Token(NoKey, NoKey, U64(0), FALSE)

Account(lamports, owner, data, token) ==
    [lamports |-> lamports, owner |-> owner, data |-> data, token |-> token]

\* spl_token::state::Account::LEN
TOKEN_ACCOUNT_LEN == 165

\* the length of an account's data: the ledger's record of a token account
\* stands for the TOKEN_ACCOUNT_LEN bytes of an account the ledger owns
DataLen(account) ==
    IF account.owner = TOKEN_PROGRAM_ID THEN TOKEN_ACCOUNT_LEN ELSE Len(account.data)

\* TokenAccount::unpack (Pack::unpack): the length, then is_initialized
TokenAccountUnpack(account) ==
    IF DataLen(account) # TOKEN_ACCOUNT_LEN THEN "InvalidAccountData"
    ELSE IF ~account.token.initialized THEN "UninitializedAccount"
    ELSE "Ok"

\* the running state of one instruction: its result so far, the accounts as
\* the instruction sees them, and the effects it has issued
St(res, acc, log) == [res |-> res, acc |-> acc, log |-> log]

\* `?`: an error ends the instruction with that error
Fail(st, e) == St(e, st.acc, st.log)

(***************************************************************************)
(* The token ledger's operations, as the handlers call them.               *)
(***************************************************************************)
\* validate_owner: the authority must be the expected owner and must sign
validate_owner(expected_owner, authority, signers) ==
    IF expected_owner # authority THEN "OwnerMismatch"
    ELSE IF authority \notin signers THEN "MissingRequiredSignature"
    ELSE "Ok"

\* spl_token set_authority, AuthorityType::AccountOwner
set_authority(st, account, new_authority, authority, signers) ==
    LET a == st.acc[account]
        v == validate_owner(a.token.owner, authority, signers)
    IN  IF st.res # "Ok" THEN st
        ELSE IF a.owner # TOKEN_PROGRAM_ID THEN Fail(st, "IncorrectProgramId")
        ELSE IF ~a.token.initialized THEN Fail(st, "UninitializedAccount")
        ELSE IF v # "Ok" THEN Fail(st, v)
        ELSE St("Ok",
                [st.acc EXCEPT ![account].token.owner = new_authority],
                Append(st.log, "set_authority"))

\* spl_token transfer
transfer(st, name, source, destination, authority, signers, amount) ==
    LET s == st.acc[source]
        d == st.acc[destination]
        v == validate_owner(s.token.owner, authority, signers)
        debit == checked_sub(s.token.amount, amount)
        credit == checked_add(d.token.amount, amount)
    IN  IF st.res # "Ok" THEN st
        ELSE IF s.owner # TOKEN_PROGRAM_ID \/ d.owner # TOKEN_PROGRAM_ID
        THEN Fail(st, "IncorrectProgramId")
        ELSE IF ~s.token.initialized \/ ~d.token.initialized
        THEN Fail(st, "UninitializedAccount")
        ELSE IF ~debit.some THEN Fail(st, "InsufficientFunds")
        ELSE IF s.token.mint # d.token.mint THEN Fail(st, "MintMismatch")
        ELSE IF v # "Ok" THEN Fail(st, v)
        ELSE IF source = destination \/ amount = U64(0)
        THEN St("Ok", st.acc, Append(st.log, name))
        ELSE IF ~credit.some THEN Fail(st, "Overflow")
        ELSE St("Ok",
                [st.acc EXCEPT ![source].token.amount = debit.v,
                               ![destination].token.amount = credit.v],
                Append(st.log, name))

\* spl_token close_account
close_account(st, name, account, destination, authority, signers) ==
    LET a == st.acc[account]
        v == validate_owner(a.token.owner, authority, signers)
        sum == checked_add(st.acc[destination].lamports, a.lamports)
    IN  IF st.res # "Ok" THEN st
        ELSE IF a.owner # TOKEN_PROGRAM_ID THEN Fail(st, "IncorrectProgramId")
        ELSE IF account = destination THEN Fail(st, "InvalidAccountData")
        ELSE IF ~a.token.initialized THEN Fail(st, "UninitializedAccount")
        ELSE IF a.token.amount # U64(0) THEN Fail(st, "NonNativeHasBalance")
        ELSE IF v # "Ok" THEN Fail(st, v)
        ELSE IF ~sum.some THEN Fail(st, "Overflow")
        ELSE St("Ok",
                [st.acc EXCEPT ![destination].lamports = sum.v,
                               ![account].lamports = U64(0),
                               ![account].token = NoToken],
                Append(st.log, name))

(***************************************************************************)
(* Rent::is_exempt.                                                        *)
(***************************************************************************)
ACCOUNT_STORAGE_OVERHEAD == 128
LAMPORTS_PER_BYTE_YEAR == 3480
EXEMPTION_THRESHOLD == 2

minimum_balance(data_len) ==
    (ACCOUNT_STORAGE_OVERHEAD + data_len) * LAMPORTS_PER_BYTE_YEAR * EXEMPTION_THRESHOLD

is_exempt(lamports, data_len) == ~U64Less(lamports, U64(minimum_balance(data_len)))

(***************************************************************************)
(* The instruction handlers (process.rs).  An instruction's accounts and   *)
(* amount are one record; a handler leaves unused fields at NoKey.         *)
(***************************************************************************)
Args(signer, is_signer, send, recv, temp, main, irecv, escrow, pda_account, amount) ==
    [signer |-> signer, is_signer |-> is_signer, send |-> send, recv |-> recv,
     temp |-> temp, main |-> main, irecv |-> irecv, escrow |-> escrow,
     pda_account |-> pda_account, amount |-> amount]

\* the signers a call into the ledger carries: the transaction's signer, and
\* under invoke_signed the address the seeds derive
TxSigners(a) == IF a.is_signer THEN {a.signer} ELSE {}

\* mutant: the custody and the receive addresses stored in each other's field
InitEscrowInfo_Swapped(escrow_info, a) ==
    [escrow_info EXCEPT
        !.is_initialized = TRUE,
        !.initializer_pubkey = a.signer,
        !.temp_token_account_pubkey = a.irecv,
        !.initializer_token_to_receive_account_pubkey = a.temp,
        !.expected_ammount = a.amount]

\* process_init_escrow, lines 71-75: every field of the record is set
InitEscrowInfo(escrow_info, a) ==
    [escrow_info EXCEPT
        !.is_initialized = TRUE,
        !.initializer_pubkey = a.signer,
        !.temp_token_account_pubkey = a.temp,
        !.initializer_token_to_receive_account_pubkey = a.irecv,
        !.expected_ammount = a.amount]

\* mutant: the initializer's own key passed as the new authority
InitSetAuthority_ToInitializer(st, a, program_id) ==
    set_authority(st, a.temp, a.signer, a.signer, TxSigners(a))

\* process_init_escrow, lines 79-96: the custody account's owner becomes the
\* derived address, on the initializer's signature
InitSetAuthority(st, a, program_id) ==
    set_authority(st, a.temp, find_program_address(program_id).pda,
                  a.signer, TxSigners(a))

\* mutant: the record written without the rent test
InitWriteRecord_NoRentCheck(acc, a) ==
    LET st == St("Ok", acc, <<>>)
        escrow_account == acc[a.escrow]
        escrow_info == unpack_unchecked(escrow_account.data)
        packed == pack(InitEscrowInfo(escrow_info.escrow, a), escrow_account.data)
    IN  IF ~a.is_signer THEN Fail(st, "MissingRequiredSignature")
        ELSE IF acc[a.irecv].owner # TOKEN_PROGRAM_ID
        THEN Fail(st, "IncorrectProgramId")
        ELSE IF escrow_info.err # "Ok" THEN Fail(st, escrow_info.err)
        ELSE IF packed.err # "Ok" THEN Fail(st, packed.err)
        ELSE St("Ok", [acc EXCEPT ![a.escrow].data = packed.data],
                <<"write_record">>)

\* process_init_escrow, lines 50-77: the checks and the record's write
InitWriteRecord(acc, a) ==
    LET st == St("Ok", acc, <<>>)
        escrow_account == acc[a.escrow]
        escrow_info == unpack_unchecked(escrow_account.data)
        packed == pack(InitEscrowInfo(escrow_info.escrow, a), escrow_account.data)
    IN  IF ~a.is_signer THEN Fail(st, "MissingRequiredSignature")
        ELSE IF acc[a.irecv].owner # TOKEN_PROGRAM_ID
        THEN Fail(st, "IncorrectProgramId")
        ELSE IF ~is_exempt(escrow_account.lamports, Len(escrow_account.data))
        THEN Fail(st, "NotRentExempt")
        ELSE IF escrow_info.err # "Ok" THEN Fail(st, escrow_info.err)
        ELSE IF packed.err # "Ok" THEN Fail(st, packed.err)
        ELSE St("Ok", [acc EXCEPT ![a.escrow].data = packed.data],
                <<"write_record">>)

process_init_escrow(acc, a, program_id) ==
    InitSetAuthority(InitWriteRecord(acc, a), a, program_id)

\* mutant: the taker's signature not required
ExchangeCheckSigner_Skipped(st, a) == st

\* process_exchange, lines 118-121: the taker must sign
ExchangeCheckSigner(st, a) ==
    IF ~a.is_signer THEN Fail(st, "MissingRequiredSignature") ELSE st

\* mutant: only a declared amount above the custody balance is refused
ExchangeCheckAmount_OnlyLarger(st, a) ==
    LET temp_token_account_info == st.acc[a.temp].token
        unpacked == TokenAccountUnpack(st.acc[a.temp])
    IN  IF st.res # "Ok" THEN st
        ELSE IF unpacked # "Ok" THEN Fail(st, unpacked)
        ELSE IF U64Less(temp_token_account_info.amount, a.amount)
        THEN Fail(st, "InvalidAmount")
        ELSE st

\* process_exchange, lines 132-135: the custody balance must be the declared amount
ExchangeCheckAmount(st, a) ==
    LET temp_token_account_info == st.acc[a.temp].token
        unpacked == TokenAccountUnpack(st.acc[a.temp])
    IN  IF st.res # "Ok" THEN st
        ELSE IF unpacked # "Ok" THEN Fail(st, unpacked)
        ELSE IF temp_token_account_info.amount # a.amount
        THEN Fail(st, "InvalidAmount")
        ELSE st

\* mutant: the receive account is not compared with the recorded one
ExchangeCheckRecord_NoReceiveCheck(st, a) ==
    LET escrow_info == unpack(st.acc[a.escrow].data)
    IN  IF st.res # "Ok" THEN st
        ELSE IF escrow_info.err # "Ok" THEN Fail(st, escrow_info.err)
        ELSE IF escrow_info.escrow.initializer_pubkey # a.main
        THEN Fail(st, "InvalidAccountData")
        ELSE st

\* process_exchange, lines 137-145: the record must be initialized and name the
\* supplied initializer and receive accounts
ExchangeCheckRecord(st, a) ==
    LET escrow_info == unpack(st.acc[a.escrow].data)
    IN  IF st.res # "Ok" THEN st
        ELSE IF escrow_info.err # "Ok" THEN Fail(st, escrow_info.err)
        ELSE IF escrow_info.escrow.initializer_pubkey # a.main
        THEN Fail(st, "InvalidAccountData")
        ELSE IF escrow_info.escrow.initializer_token_to_receive_account_pubkey
                    # a.irecv
        THEN Fail(st, "InvalidAccountData")
        ELSE st

\* process_exchange, lines 117-145: the checks before any call
ExchangeValidate(acc, a) ==
    ExchangeCheckRecord(
        ExchangeCheckAmount(ExchangeCheckSigner(St("Ok", acc, <<>>), a), a), a)

\* mutant: the declared amount transferred instead of the recorded one
ExchangeTransferToInitializer_DeclaredAmount(st, a) ==
    transfer(st, "transfer_to_initializer", a.send, a.irecv, a.signer,
             TxSigners(a), a.amount)

\* mutant: the result of the first transfer dropped instead of returned
ExchangeTransferToInitializer_Unchecked(st, a) ==
    LET r == transfer(st, "transfer_to_initializer", a.send, a.irecv, a.signer,
                      TxSigners(a),
                      unpack(st.acc[a.escrow].data).escrow.expected_ammount)
    IN  IF st.res = "Ok" /\ r.res # "Ok" THEN st ELSE r

\* process_exchange, lines 148-165: the counter-asset to the initializer
ExchangeTransferToInitializer(st, a) ==
    transfer(st, "transfer_to_initializer", a.send, a.irecv, a.signer,
             TxSigners(a), unpack(st.acc[a.escrow].data).escrow.expected_ammount)

\* invoke_signed: the account the instruction names as its signer must be
\* among the accounts passed, here as pda_account
InvokeSignedAccounts(st, a, pda) ==
    IF st.res = "Ok" /\ a.pda_account # pda THEN Fail(st, "MissingAccount") ELSE st

\* mutant: the release signed as an address derived from another identity
ExchangeTransferToTaker_OtherIdentity(st, a, program_id) ==
    LET pda == find_program_address(SYSTEM_PROGRAM_ID).pda
    IN  transfer(st, "transfer_to_taker",
                 a.temp, a.recv, pda, TxSigners(a) \cup {pda}, a.amount)

\* process_exchange, lines 166-184: the custody balance to the taker
ExchangeTransferToTaker(st, a, program_id) ==
    LET pda == find_program_address(program_id).pda
    IN  transfer(InvokeSignedAccounts(st, a, pda), "transfer_to_taker",
                 a.temp, a.recv, pda, TxSigners(a) \cup {pda}, a.amount)

\* mutant: the custody account's lamports returned to the taker
ExchangeCloseTemp_ToTaker(st, a, program_id) ==
    LET pda == find_program_address(program_id).pda
    IN  close_account(InvokeSignedAccounts(st, a, pda), "close_temp",
                      a.temp, a.signer, pda, TxSigners(a) \cup {pda})

\* process_exchange, lines 185-202: the custody account closed
ExchangeCloseTemp(st, a, program_id) ==
    LET pda == find_program_address(program_id).pda
    IN  close_account(InvokeSignedAccounts(st, a, pda), "close_temp",
                      a.temp, a.main, pda, TxSigners(a) \cup {pda})

\* mutant: the escrow account's lamports credited but not zeroed
ExchangeCloseEscrow_KeepsLamports(st, a) ==
    LET sum == checked_add(st.acc[a.main].lamports, st.acc[a.escrow].lamports)
        credited == [st.acc EXCEPT ![a.main].lamports = sum.v]
    IN  IF st.res # "Ok" THEN st
        ELSE IF ~sum.some THEN Fail(st, "AmountOverflow")
        ELSE St("Ok", [credited EXCEPT ![a.escrow].data = <<>>],
                Append(st.log, "close_escrow"))

\* mutant: the escrow account's data left in place
ExchangeCloseEscrow_KeepsData(st, a) ==
    LET sum == checked_add(st.acc[a.main].lamports, st.acc[a.escrow].lamports)
        credited == [st.acc EXCEPT ![a.main].lamports = sum.v]
    IN  IF st.res # "Ok" THEN st
        ELSE IF ~sum.some THEN Fail(st, "AmountOverflow")
        ELSE St("Ok", [credited EXCEPT ![a.escrow].lamports = U64(0)],
                Append(st.log, "close_escrow"))

\* mutant: the credit added with wrapping_add instead of checked_add
ExchangeCloseEscrow_WrappingAdd(st, a) ==
    LET x == st.acc[a.main].lamports
        y == st.acc[a.escrow].lamports
        s1 == x[1] + y[1]
        s2 == x[2] + y[2] + (s1 \div LimbBase)
        s3 == x[3] + y[3] + (s2 \div LimbBase)
        s4 == x[4] + y[4] + (s3 \div LimbBase)
        sum == <<s1 % LimbBase, s2 % LimbBase, s3 % LimbBase, s4 % LimbBase>>
        credited == [st.acc EXCEPT ![a.main].lamports = sum]
        zeroed == [credited EXCEPT ![a.escrow].lamports = U64(0)]
    IN  IF st.res # "Ok" THEN st
        ELSE St("Ok", [zeroed EXCEPT ![a.escrow].data = <<>>],
                Append(st.log, "close_escrow"))

\* process_exchange, lines 203-209: the escrow account's lamports credited to
\* the initializer, its balance zeroed and its data emptied
ExchangeCloseEscrow(st, a) ==
    LET sum == checked_add(st.acc[a.main].lamports, st.acc[a.escrow].lamports)
        credited == [st.acc EXCEPT ![a.main].lamports = sum.v]
        zeroed == [credited EXCEPT ![a.escrow].lamports = U64(0)]
    IN  IF st.res # "Ok" THEN st
        ELSE IF ~sum.some THEN Fail(st, "AmountOverflow")
        ELSE St("Ok", [zeroed EXCEPT ![a.escrow].data = <<>>],
                Append(st.log, "close_escrow"))

\* mutant: the custody balance released before the initializer is paid
process_exchange_ReleaseFirst(acc, a, program_id) ==
    ExchangeCloseEscrow(
        ExchangeCloseTemp(
            ExchangeTransferToInitializer(
                ExchangeTransferToTaker(ExchangeValidate(acc, a), a, program_id),
                a),
            a, program_id),
        a)

process_exchange(acc, a, program_id) ==
    ExchangeCloseEscrow(
        ExchangeCloseTemp(
            ExchangeTransferToTaker(
                ExchangeTransferToInitializer(ExchangeValidate(acc, a), a),
                a, program_id),
            a, program_id),
        a)

(***************************************************************************)
(* The chain the program runs on: two wallets, their token accounts of two *)
(* mints, and two escrow storage accounts of LEN zero bytes owned by the   *)
(* program.                                                                *)
(***************************************************************************)
MaxAmountSteps == 2

\* the amounts an instruction may carry
Amounts == {U64(500 * i) : i \in 1..MaxAmountSteps}

TokenRent == U64(minimum_balance(TOKEN_ACCOUNT_LEN))

EscrowRent == U64(minimum_balance(LEN))

Pda == find_program_address(PROGRAM_ID).pda

\* the initializer's wallet may be so full that a credit overflows
WalletLamports ==
    {U64(1000000),
     checked_sub(U64_MAX, TokenRent).v,
     checked_sub(U64_MAX, U64(5)).v}

\* an escrow account is funded to the rent-exempt minimum, or one lamport short
EscrowLamports == {EscrowRent, checked_sub(EscrowRent, U64(1)).v}

Zeroes == [i \in 1..LEN |-> 0]

\* data that never was a record of the program: the flag byte is 0 and the
\* other 104 bytes name Alice, TempX2, AliceY and the amount 500
Unwritten == pack_into_slice(Escrow(FALSE, Alice, TempX2, AliceY, U64(500)))

\* the start: the funding of Alice's wallet, the funding of the second escrow
\* account and the data that account was handed to the program with
Fundings ==
    {<<w, EscrowRent, Zeroes>> : w \in WalletLamports}
        \cup {<<U64(1000000), e, Zeroes>> : e \in EscrowLamports}
        \cup {<<U64(1000000), EscrowRent, Unwritten>>}

NoTx == [op |-> "None", args |-> Args(NoKey, FALSE, NoKey, NoKey, NoKey, NoKey,
                                     NoKey, NoKey, NoKey, U64(0)),
         res |-> "None", log |-> <<>>, prev_init |-> NoKey]

InitialAccounts(aliceLamports, escrow2Lamports, escrow2Data) ==
    [k \in AccountKeys |->
        CASE k = Alice -> Account(aliceLamports, SYSTEM_PROGRAM_ID, <<>>, NoToken)
          [] k = Bob -> Account(U64(1000000), SYSTEM_PROGRAM_ID, <<>>, NoToken)
          [] k = TempX1 -> Account(TokenRent, TOKEN_PROGRAM_ID, <<>>,
                                   Token(MintX, Alice, U64(1000), TRUE))
          [] k = TempX2 -> Account(TokenRent, TOKEN_PROGRAM_ID, <<>>,
                                   Token(MintX, Alice, U64(500), TRUE))
          [] k = AliceY -> Account(TokenRent, TOKEN_PROGRAM_ID, <<>>,
                                   Token(MintY, Alice, U64(0), TRUE))
          [] k = BobY -> Account(TokenRent, TOKEN_PROGRAM_ID, <<>>,
                                 Token(MintY, Bob, U64(1000), TRUE))
          [] k = BobX -> Account(TokenRent, TOKEN_PROGRAM_ID, <<>>,
                                 Token(MintX, Bob, U64(0), TRUE))
          [] k = Escrow1 -> Account(EscrowRent, PROGRAM_ID, Zeroes, NoToken)
          [] k = Escrow2 -> Account(escrow2Lamports, PROGRAM_ID, escrow2Data, NoToken)]

Init ==
    /\ \E f \in Fundings : accounts = InitialAccounts(f[1], f[2], f[3])
    /\ last = NoTx
    /\ justInit = NoKey
    /\ exchanged = {}

\* The host runs one instruction as one transaction: what it changed is kept
\* when it returns Ok and discarded when it returns an error.
Process(op, a, r) ==
    /\ last = NoTx
    /\ accounts' = IF r.res = "Ok" THEN r.acc ELSE accounts
    /\ last' = [op |-> op, args |-> a, res |-> r.res, log |-> r.log,
                prev_init |-> justInit]

\* EscrowInstruction::InitEscrow { amount }
InitEscrow ==
    \E initializer \in {Alice}, is_signer \in BOOLEAN, temp \in {TempX1, TempX2},
       irecv \in {AliceY, Alice}, escrow \in EscrowAccounts, amount \in Amounts :
        LET a == Args(initializer, is_signer, NoKey, NoKey, temp, NoKey, irecv,
                      escrow, NoKey, amount)
            r == process_init_escrow(accounts, a, PROGRAM_ID)
        IN  /\ Process("InitEscrow", a, r)
            /\ justInit' = IF r.res = "Ok" THEN escrow ELSE NoKey
            /\ UNCHANGED exchanged

\* a taker and the token account it sends from: Bob, or the initializer herself
Takers == {<<Bob, BobY>>, <<Alice, AliceY>>}

\* the account supplied as custody and the declared amount: a custody token
\* account with any amount, or a wallet, which is no token account
Custodies == ({TempX1, TempX2} \X Amounts) \cup {<<Bob, U64(500)>>}

\* EscrowInstruction::Exchange { amount }
Exchange ==
    \E taker \in Takers, is_signer \in BOOLEAN,
       recv \in {BobX}, custody \in Custodies, main \in Wallets,
       irecv \in {AliceY, BobY}, escrow \in EscrowAccounts,
       pda_account \in {Pda} :
        LET a == Args(taker[1], is_signer, taker[2], recv, custody[1], main, irecv,
                      escrow, pda_account, custody[2])
            r == process_exchange(accounts, a, PROGRAM_ID)
        IN  /\ Process("Exchange", a, r)
            /\ justInit' = NoKey
            /\ exchanged' = IF r.res = "Ok" THEN exchanged \cup {escrow} ELSE exchanged

\* A wallet calls the token ledger's transfer itself, outside the program.
ExtTransfer ==
    \E signer \in Wallets, source \in {TempX1, TempX2},
       destination \in {BobX}, amount \in {U64(500)} :
        LET a == Args(signer, TRUE, source, destination, NoKey, NoKey, NoKey,
                      NoKey, NoKey, amount)
            r == transfer(St("Ok", accounts, <<>>), "transfer", source, destination,
                          signer, {signer}, amount)
        IN  /\ Process("ExtTransfer", a, r)
            /\ justInit' = NoKey
            /\ UNCHANGED exchanged

\* A wallet calls the token ledger's set_authority itself.
ExtSetAuthority ==
    \E signer \in Wallets, account \in {TempX1, TempX2} :
        LET a == Args(signer, TRUE, NoKey, NoKey, account, NoKey, NoKey,
                      NoKey, NoKey, U64(0))
            r == set_authority(St("Ok", accounts, <<>>), account, signer,
                               signer, {signer})
        IN  /\ Process("ExtSetAuthority", a, r)
            /\ justInit' = NoKey
            /\ UNCHANGED exchanged

\* A wallet calls the token ledger's close_account itself.
ExtCloseAccount ==
    \E signer \in Wallets, account \in {TempX1, TempX2} :
        LET a == Args(signer, TRUE, NoKey, NoKey, account, signer, NoKey,
                      NoKey, NoKey, U64(0))
            r == close_account(St("Ok", accounts, <<>>), "close_account", account,
                               signer, signer, {signer})
        IN  /\ Process("ExtCloseAccount", a, r)
            /\ justInit' = NoKey
            /\ UNCHANGED exchanged

\* The host takes the next transaction.
HostNext ==
    /\ last # NoTx
    /\ last' = NoTx
    /\ UNCHANGED <<accounts, justInit, exchanged>>

Next ==
    \/ InitEscrow
    \/ Exchange
    \/ ExtTransfer
    \/ ExtSetAuthority
    \/ ExtCloseAccount
    \/ HostNext

Spec == Init /\ [][Next]_vars

(***************************************************************************)
(* The codec on its own: the data of one escrow account is packed from     *)
(* records and unpacked again, and between the two any first byte may be   *)
(* written to it.  The records range over both flags, addresses whose      *)
(* bytes all differ, and amounts that fill one byte, eight bytes, or none. *)
(***************************************************************************)
MaxCodecKeys == 2

\* an address whose 32 bytes all differ
CodecKey(n) == [i \in 1..PUBKEY_BYTES |-> (80 * n + i) % 256]

CodecKeys == {CodecKey(n) : n \in 1..MaxCodecKeys}

\* 0, 1, 0x0102030405060708 and u64::MAX
CodecAmounts == {U64(0), U64(1), <<1800, 1286, 772, 258>>, U64_MAX}

Records ==
    {Escrow(f, k[1], k[2], k[3], x) :
        f \in BOOLEAN, k \in CodecKeys \X CodecKeys \X CodecKeys, x \in CodecAmounts}

\* the first bytes a buffer may be given
FlagBytes == {0, 1, 2, 255}

\* the data an account may hold before the program has packed a record into
\* it: one byte, LEN bytes or LEN + 1 bytes
CodecBuffers ==
    UNION {{<<b>>, [Zeroes EXCEPT ![1] = b], [Zeroes EXCEPT ![1] = b] \o <<0>>} :
             b \in FlagBytes}

CodecTx(op, args, res) ==
    [op |-> op, args |-> args, res |-> res, log |-> <<>>, prev_init |-> NoKey]

CodecInit ==
    /\ \E b \in CodecBuffers :
          accounts = [InitialAccounts(U64(1000000), EscrowRent, Zeroes)
                         EXCEPT ![Escrow1].data = b]
    /\ last = NoTx
    /\ justInit = NoKey
    /\ exchanged = {}

\* Escrow::pack(record, &mut data)
CodecPack ==
    \E r \in Records :
        LET packed == pack(r, accounts[Escrow1].data)
        IN  /\ accounts' = [accounts EXCEPT ![Escrow1].data = packed.data]
            /\ last' = CodecTx("Pack", r, packed.err)
            /\ UNCHANGED <<justInit, exchanged>>

\* Escrow::unpack_from_slice, unpack_unchecked and unpack of the data
CodecUnpack ==
    LET src == accounts[Escrow1].data
    IN  /\ last' = CodecTx("Unpack", src,
                           [from_slice |-> unpack_from_slice(src),
                            unchecked |-> unpack_unchecked(src),
                            checked |-> unpack(src)])
        /\ UNCHANGED <<accounts, justInit, exchanged>>

\* the first byte of the data overwritten
CodecWriteFlag ==
    \E b \in FlagBytes :
        /\ accounts' = [accounts EXCEPT ![Escrow1].data[1] = b]
        /\ last' = CodecTx("WriteFlag", <<b>>, "Ok")
        /\ UNCHANGED <<justInit, exchanged>>

CodecNext ==
    \/ CodecPack
    \/ CodecUnpack
    \/ CodecWriteFlag

SpecCodec == CodecInit /\ [][CodecNext]_vars

(***************************************************************************)
(* Vocabulary of the properties.  A step that processes a transaction      *)
(* takes the host from idle (last = NoTx) to last' = that transaction; the *)
(* unprimed accounts are the ones before it and the primed ones after it.  *)
(***************************************************************************)
Processes(op) == last = NoTx /\ last'.op = op

\* the record an escrow account holds, as Exchange reads it
RecordOf(acc, e) == unpack(acc[e].data)

\* a u64 sum where it fits
Plus(x, y) == checked_add(x, y).v

\* token balances after the ledger has moved amount from source to
\* destination: a transfer from an account to itself leaves its balance as it was
AfterMove(bal, source, destination, amount) ==
    IF source = destination THEN bal
    ELSE [bal EXCEPT ![source] = checked_sub(bal[source], amount).v,
                     ![destination] = Plus(bal[destination], amount)]

TokenBalances(acc) == [k \in TokenAccounts |-> acc[k].token.amount]

\* the token balances of post are those of pre after expected has moved from
\* the taker's sending account to the initializer's receive account and the
\* declared amount from the custody account to the taker's receiving account;
\* no other token balance differs
Swapped(pre, post, a, expected) ==
    /\ ~U64Less(pre[a.send].token.amount, expected)
    /\ TokenBalances(post) =
           AfterMove(AfterMove(TokenBalances(pre), a.send, a.irecv, expected),
                     a.temp, a.recv, a.amount)

\* an Exchange that supplies what the record names, by a signing taker, with
\* the custody account's balance as the declared amount
MatchingExchange(acc, a) ==
    /\ RecordOf(acc, a.escrow).err = "Ok"
    /\ a.is_signer
    /\ a.main = RecordOf(acc, a.escrow).escrow.initializer_pubkey
    /\ a.irecv = RecordOf(acc, a.escrow).escrow.initializer_token_to_receive_account_pubkey
    /\ a.temp = RecordOf(acc, a.escrow).escrow.temp_token_account_pubkey
    /\ acc[a.temp].token.initialized
    /\ a.amount = acc[a.temp].token.amount

\* the escrow account is closed: no lamports, no data
Closed(acc, e) == acc[e].lamports = U64(0) /\ acc[e].data = <<>>

\* what the ledger and the lamport credits need of a matching Exchange: the
\* taker's own sending account of the receive account's mint with at least
\* expected_amount, a receiving account of the custody's mint, the derived
\* address among the accounts, and lamport sums that fit in a u64
Fundable(acc, a) ==
    LET expected == RecordOf(acc, a.escrow).escrow.expected_ammount
    IN  /\ acc[a.send].token.initialized /\ acc[a.irecv].token.initialized
        /\ acc[a.recv].token.initialized
        /\ acc[a.send].token.owner = a.signer
        /\ acc[a.send].token.mint = acc[a.irecv].token.mint
        /\ acc[a.temp].token.mint = acc[a.recv].token.mint
        /\ ~U64Less(acc[a.send].token.amount, expected)
        /\ a.send = a.irecv \/ checked_add(acc[a.irecv].token.amount, expected).some
        /\ checked_add(acc[a.recv].token.amount, a.amount).some
        /\ a.pda_account = Pda
        /\ checked_add(acc[a.main].lamports, acc[a.temp].lamports).some
        /\ checked_add(Plus(acc[a.main].lamports, acc[a.temp].lamports),
                       acc[a.escrow].lamports).some

C2_ExchangeMoves ==
    [][(Processes("Exchange") /\ last'.res = "Ok")
       => LET a == last'.args
              expected == RecordOf(accounts, a.escrow).escrow.expected_ammount
          IN  /\ a.amount = accounts[a.temp].token.amount
              /\ Swapped(accounts, accounts', a, expected)
              /\ accounts'[a.temp].token.amount = U64(0)]_vars

\* expected_amount 500 and a custody balance of 1000: after the Exchange the
\* initializer's receive account holds 500 and the taker's 1000
C2_Witness ==
    /\ last.op = "Exchange"
    /\ last.res = "Ok"
    /\ last.args.amount = U64(1000)
    /\ last.args.send # last.args.irecv
    /\ accounts[last.args.irecv].token.amount = U64(500)
    /\ accounts[last.args.send].token.amount = U64(500)
    /\ accounts[last.args.recv].token.amount = U64(1000)

(***************************************************************************)
(* C3: no partial swap.  An Exchange either succeeds, and then it issued   *)
(* all four effects and both the credit of expected_amount to the          *)
(* initializer's receive account and the release of the custody balance to *)
(* the taker took place, or it fails, and then every token balance, every  *)
(* lamport balance and every escrow record is as before; a failed Init     *)
(* changes nothing either.  Hence the custody asset is released in a step  *)
(* exactly when the receive account is credited in that step.              *)
(***************************************************************************)
C3_NoPartialSwap ==
    [][/\ Processes("Exchange") =>
            LET a == last'.args
                expected == RecordOf(accounts, a.escrow).escrow.expected_ammount
            IN  IF last'.res = "Ok"
                THEN /\ last'.log = <<"transfer_to_initializer", "transfer_to_taker",
                                       "close_temp", "close_escrow">>
                     /\ Swapped(accounts, accounts', a, expected)
                ELSE accounts' = accounts
       /\ (Processes("InitEscrow") /\ last'.res # "Ok") => accounts' = accounts]_vars

\* an Exchange that failed after its first transfer had been issued
C3_Witness ==
    /\ last.op = "Exchange"
    /\ last.res # "Ok"
    /\ Len(last.log) >= 1

(***************************************************************************)
(* C4 as stated: while an escrow account holds an initialized record, the  *)
(* record does not change until Exchange closes the account; a later Init  *)
(* on the same account does not alter it.                                  *)
(***************************************************************************)
C4_RecordImmutable ==
    [][\A e \in EscrowAccounts :
          (RecordOf(accounts, e).err = "Ok" /\ ~Closed(accounts', e))
              => accounts'[e].data = accounts[e].data]_vars

(***************************************************************************)
(* C5: at most one swap per escrow record.  Once an Exchange on an escrow  *)
(* account has succeeded, every later Exchange on that account fails and   *)
(* changes no token balance and no lamport balance.                        *)
(***************************************************************************)
C5_AtMostOneSwap ==
    [][(Processes("Exchange") /\ last'.args.escrow \in exchanged)
       => (last'.res # "Ok" /\ accounts' = accounts)]_vars

\* an Exchange on an escrow account that an earlier Exchange had closed, with
\* a custody account the derived address still owns, has failed
C5_Witness ==
    /\ last.op = "Exchange"
    /\ last.args.escrow \in exchanged
    /\ last.res # "Ok"
    /\ last.args.is_signer
    /\ accounts[last.args.temp].token.owner = Pda
    /\ accounts[last.args.temp].token.amount = last.args.amount

\* the custody account supplied holds a token balance other than the declared amount
AmountMismatch(acc, a) ==
    acc[a.temp].token.initialized /\ acc[a.temp].token.amount # a.amount

(***************************************************************************)
(* C6 as stated: Exchange fails with InvalidAmount whenever the custody    *)
(* account's token balance differs from the declared amount, and then      *)
(* nothing changes.                                                        *)
(***************************************************************************)
C6_AsStated ==
    [][(Processes("Exchange") /\ AmountMismatch(accounts, last'.args))
       => (last'.res = "InvalidAmount" /\ accounts' = accounts)]_vars

(***************************************************************************)
(* C6 amended: an Exchange whose first account signs fails with            *)
(* InvalidAmount whenever the custody account's token balance differs from *)
(* the declared amount, larger or smaller, and then no transfer, close or  *)
(* record change occurs; without the signature the Exchange fails earlier, *)
(* with MissingRequiredSignature.                                          *)
(***************************************************************************)
C6_InvalidAmount ==
    [][(Processes("Exchange") /\ AmountMismatch(accounts, last'.args))
       => /\ last'.res = IF last'.args.is_signer THEN "InvalidAmount"
                         ELSE "MissingRequiredSignature"
          /\ last'.log = <<>>
          /\ accounts' = accounts]_vars

\* an Exchange has failed with InvalidAmount on a declared amount below the
\* custody balance
C6_WitnessSmaller ==
    /\ last.op = "Exchange"
    /\ last.res = "InvalidAmount"
    /\ U64Less(last.args.amount, accounts[last.args.temp].token.amount)

\* the record is live and the supplied initializer or receive account is not
\* the one it names
WrongParty(acc, a) ==
    /\ RecordOf(acc, a.escrow).err = "Ok"
    /\ \/ a.main # RecordOf(acc, a.escrow).escrow.initializer_pubkey
       \/ a.irecv # RecordOf(acc, a.escrow).escrow.initializer_token_to_receive_account_pubkey

(***************************************************************************)
(* C7 as stated: Exchange fails with InvalidAccountData whenever the       *)
(* supplied initializer-main or initializer-receive account differs from   *)
(* the address recorded at Init.                                           *)
(***************************************************************************)
C7_AsStated ==
    [][(Processes("Exchange") /\ WrongParty(accounts, last'.args))
       => last'.res = "InvalidAccountData"]_vars

(***************************************************************************)
(* C7 amended: an Exchange whose first account signs and whose declared    *)
(* amount is the custody balance fails with InvalidAccountData whenever    *)
(* the supplied initializer-main or initializer-receive account differs    *)
(* from the recorded one (the signature and the amount are checked first   *)
(* and fail with their own errors); in every case such an Exchange fails   *)
(* and changes nothing, so a successful Exchange pays the counter-asset    *)
(* and the reclaimed rent to the recorded accounts only.                   *)
(***************************************************************************)
C7_InvalidAccountData ==
    [][/\ (Processes("Exchange") /\ WrongParty(accounts, last'.args))
            => /\ last'.res # "Ok"
               /\ accounts' = accounts
               /\ (/\ last'.args.is_signer
                   /\ accounts[last'.args.temp].token.initialized
                   /\ accounts[last'.args.temp].token.amount = last'.args.amount)
                      => last'.res = "InvalidAccountData"
       /\ (Processes("Exchange") /\ last'.res = "Ok")
            => /\ RecordOf(accounts, last'.args.escrow).err = "Ok"
               /\ ~WrongParty(accounts, last'.args)]_vars

\* an Exchange naming the recorded initializer but another receive account has
\* failed with InvalidAccountData
C7_Witness ==
    /\ last.op = "Exchange"
    /\ last.res = "InvalidAccountData"
    /\ RecordOf(accounts, last.args.escrow).err = "Ok"
    /\ last.args.main = RecordOf(accounts, last.args.escrow).escrow.initializer_pubkey
    /\ last.args.irecv #
           RecordOf(accounts, last.args.escrow).escrow.initializer_token_to_receive_account_pubkey

\* the Exchange passed its checks and both transfers were issued
ReachedClose(tx) == tx.op = "Exchange" /\ Len(tx.log) >= 2

\* the Exchange passed its checks, both transfers and the custody close
ReachedCredit(tx) == tx.op = "Exchange" /\ Len(tx.log) >= 3

(***************************************************************************)
(* C8 as stated: in an Exchange (that gets as far as returning lamports),  *)
(* if the initializer-main account's lamports plus the escrow account's    *)
(* lamports exceed the u64 maximum, the Exchange fails with AmountOverflow *)
(* and nothing changes.                                                    *)
(***************************************************************************)
C8_AsStated ==
    [][(/\ Processes("Exchange")
        /\ ReachedClose(last')
        /\ ~checked_add(accounts[last'.args.main].lamports,
                        accounts[last'.args.escrow].lamports).some)
       => (last'.res = "AmountOverflow" /\ accounts' = accounts)]_vars

(***************************************************************************)
(* C8 amended: the balance the final credit adds to is the initializer's   *)
(* after the custody close has returned the custody account's lamports to  *)
(* it.  If that balance plus the escrow account's lamports exceeds the u64 *)
(* maximum, the credit fails with AmountOverflow; if already the           *)
(* initializer's lamports plus the custody account's exceed it, the close  *)
(* fails first, with the ledger's Overflow.  Either way no lamport or      *)
(* token balance changes.                                                  *)
(***************************************************************************)
C8_AmountOverflow ==
    [][/\ (/\ Processes("Exchange")
            /\ ReachedCredit(last')
            /\ ~checked_add(Plus(accounts[last'.args.main].lamports,
                                 accounts[last'.args.temp].lamports),
                            accounts[last'.args.escrow].lamports).some)
           => (last'.res = "AmountOverflow" /\ accounts' = accounts)
       /\ (/\ Processes("Exchange")
            /\ ReachedClose(last')
            /\ ~checked_add(accounts[last'.args.main].lamports,
                            accounts[last'.args.temp].lamports).some)
           => (last'.res = "Overflow" /\ accounts' = accounts)]_vars

\* an Exchange has failed with AmountOverflow although the initializer's
\* lamports plus the escrow account's fit
C8_Witness ==
    /\ last.op = "Exchange"
    /\ last.res = "AmountOverflow"
    /\ last.log = <<"transfer_to_initializer", "transfer_to_taker", "close_temp">>
    /\ checked_add(accounts[last.args.main].lamports,
                   accounts[last.args.escrow].lamports).some

\* a token account the derived address owns: its tokens are in custody
InCustody(acc, k) == acc[k].token.initialized /\ acc[k].token.owner = Pda

\* the step took tokens out of k, changed its owner or closed it
Released(pre, post, k) ==
    \/ U64Less(post[k].token.amount, pre[k].token.amount)
    \/ post[k].token.owner # pre[k].token.owner
    \/ ~post[k].token.initialized

(***************************************************************************)
(* C9: Init locks the funds.  After a successful Init the custody          *)
(* account's owner is the derived address, which is neither the            *)
(* initializer nor any wallet, and from then on a step takes tokens out of *)
(* a custody account, changes its owner or closes it only if the step is a *)
(* successful Exchange on that custody account: every transfer,            *)
(* set_authority and close_account a wallet signs itself fails.            *)
(***************************************************************************)
C9_InitLocksFunds ==
    [][/\ (Processes("InitEscrow") /\ last'.res = "Ok")
            => /\ InCustody(accounts', last'.args.temp)
               /\ Pda \notin Wallets
               /\ accounts[last'.args.temp].token.owner = last'.args.signer
       /\ \A k \in TokenAccounts :
             (InCustody(accounts, k) /\ Released(accounts, accounts', k))
                 => /\ last'.op = "Exchange"
                    /\ last'.res = "Ok"
                    /\ last'.args.temp = k
                    /\ last'.log[2] = "transfer_to_taker"]_vars

\* the initializer itself has signed a transfer out of the custody account
\* after Init, and the ledger has refused it
C9_Witness ==
    /\ last.op = "ExtTransfer"
    /\ last.res = "OwnerMismatch"
    /\ InCustody(accounts, last.args.send)
    /\ \E e \in EscrowAccounts :
          /\ RecordOf(accounts, e).err = "Ok"
          /\ RecordOf(accounts, e).escrow.temp_token_account_pubkey = last.args.send
          /\ RecordOf(accounts, e).escrow.initializer_pubkey = last.args.signer

(***************************************************************************)
(* C10: after a successful Init with amount a and accounts [initializer,   *)
(* custody, receive, escrow storage, ...] the escrow storage account holds *)
(* the record with is_initialized = true, initializer_identity = the       *)
(* initializer's address, custody_account = the custody account's address, *)
(* initializer_receive_account = the receive account's address and         *)
(* expected_amount = a.                                                    *)
(***************************************************************************)
C10_InitRecord ==
    [][(Processes("InitEscrow") /\ last'.res = "Ok")
       => unpack(accounts'[last'.args.escrow].data)
            = Decoded(Escrow(TRUE, last'.args.signer, last'.args.temp,
                             last'.args.irecv, last'.args.amount))]_vars

\* an Init with amount 1000 has succeeded and the record holds 1000
C10_Witness ==
    /\ last.op = "InitEscrow"
    /\ last.res = "Ok"
    /\ last.args.amount = U64(1000)
    /\ RecordOf(accounts, last.args.escrow).err = "Ok"
    /\ RecordOf(accounts, last.args.escrow).escrow.expected_ammount = U64(1000)
    /\ RecordOf(accounts, last.args.escrow).escrow.initializer_pubkey = Alice
    /\ accounts[last.args.escrow].data[98] = 232
    /\ accounts[last.args.escrow].data[99] = 3

(***************************************************************************)
(* C11: an Init or an Exchange whose first account is not a signer of the  *)
(* transaction fails with MissingRequiredSignature before it has issued    *)
(* any effect: no escrow record, token balance, lamport balance or custody *)
(* authority changes.                                                      *)
(***************************************************************************)
C11_MissingSignature ==
    [][((Processes("InitEscrow") \/ Processes("Exchange")) /\ ~last'.args.is_signer)
       => /\ last'.res = "MissingRequiredSignature"
          /\ last'.log = <<>>
          /\ accounts' = accounts]_vars

\* an Exchange that supplies what a live record names and the custody balance
\* as the declared amount, but without the taker's signature, has failed
C11_Witness ==
    /\ last.op = "Exchange"
    /\ ~last.args.is_signer
    /\ last.res = "MissingRequiredSignature"
    /\ RecordOf(accounts, last.args.escrow).err = "Ok"
    /\ last.args.main = RecordOf(accounts, last.args.escrow).escrow.initializer_pubkey
    /\ last.args.irecv =
           RecordOf(accounts, last.args.escrow).escrow.initializer_token_to_receive_account_pubkey
    /\ InCustody(accounts, last.args.temp)
    /\ accounts[last.args.temp].token.amount = last.args.amount

\* the accounts an instruction supplies in the role of a token account
TokenRoles(tx) ==
    IF tx.op = "InitEscrow" THEN {tx.args.temp, tx.args.irecv}
    ELSE {tx.args.send, tx.args.recv, tx.args.temp, tx.args.irecv}

(***************************************************************************)
(* C12 as stated, read for instructions whose first account signs (C11     *)
(* covers the others): an Init or an Exchange that is supplied, in the     *)
(* role of a token account, an account the token ledger does not own fails *)
(* with IncorrectProgramId before it has issued any effect, and nothing    *)
(* changes.                                                                *)
(***************************************************************************)
C12_AsStated ==
    [][(/\ Processes("InitEscrow") \/ Processes("Exchange")
        /\ last'.args.is_signer
        /\ \E k \in TokenRoles(last') : accounts[k].owner # TOKEN_PROGRAM_ID)
       => /\ last'.res = "IncorrectProgramId"
          /\ last'.log = <<>>
          /\ accounts' = accounts]_vars

\* the escrow account supplied does not hold the rent-exempt minimum for the
\* length of its data
Underfunded(acc, a) == ~is_exempt(acc[a.escrow].lamports, Len(acc[a.escrow].data))

(***************************************************************************)
(* C13 as stated: Init fails with NotRentExempt whenever the escrow        *)
(* account's lamports do not satisfy the rent-exemption predicate for its  *)
(* data length, and then the record is not written and the custody         *)
(* account's authority is not changed.                                     *)
(***************************************************************************)
C13_AsStated ==
    [][(Processes("InitEscrow") /\ Underfunded(accounts, last'.args))
       => /\ last'.res = "NotRentExempt"
          /\ last'.log = <<>>
          /\ accounts' = accounts]_vars

(***************************************************************************)
(* C13 amended: an Init whose first account signs and whose receive        *)
(* account the token ledger owns fails with NotRentExempt whenever the     *)
(* escrow account's lamports do not satisfy the rent-exemption predicate   *)
(* for its data length; without the signature it fails earlier with        *)
(* MissingRequiredSignature, and with a receive account of another owner   *)
(* with IncorrectProgramId.  In every case the record is not written and   *)
(* the custody account's authority is not changed.                         *)
(***************************************************************************)
C13_NotRentExempt ==
    [][(Processes("InitEscrow") /\ Underfunded(accounts, last'.args))
       => /\ last'.res =
                IF ~last'.args.is_signer THEN "MissingRequiredSignature"
                ELSE IF accounts[last'.args.irecv].owner # TOKEN_PROGRAM_ID
                THEN "IncorrectProgramId"
                ELSE "NotRentExempt"
          /\ last'.log = <<>>
          /\ accounts' = accounts]_vars

\* an Init on an escrow account of LEN bytes one lamport short of the minimum
\* has failed with NotRentExempt
C13_Witness ==
    /\ last.op = "InitEscrow"
    /\ last.res = "NotRentExempt"
    /\ Len(accounts[last.args.escrow].data) = LEN
    /\ accounts[last.args.escrow].lamports = checked_sub(EscrowRent, U64(1)).v
    /\ accounts[last.args.temp].token.owner = last.args.signer

(***************************************************************************)
(* C14: codec round trip.  For every record, with either flag, any three   *)
(* addresses and any u64 amount, packing it into LEN bytes puts the flag   *)
(* in byte 0, the three addresses in bytes 1-32, 33-64 and 65-96 and the   *)
(* amount, least significant byte first, in bytes 97-104, and unpacking    *)
(* those bytes gives back the record in all five fields.  (Pack::unpack,   *)
(* which also requires is_initialized, gives it back when the flag is      *)
(* set.)                                                                   *)
(***************************************************************************)
C14_RoundTrip ==
    (last.op = "Pack" /\ last.res = "Ok") =>
        LET r == last.args
            data == accounts[Escrow1].data
            amount == r.expected_ammount
        IN  /\ Len(data) = 105
            /\ data[1] = IF r.is_initialized THEN 1 ELSE 0
            /\ \A i \in 1..32 :
                  /\ data[1 + i] = r.initializer_pubkey[i]
                  /\ data[33 + i] = r.temp_token_account_pubkey[i]
                  /\ data[65 + i] = r.initializer_token_to_receive_account_pubkey[i]
            /\ \A i \in 1..4 : data[96 + 2 * i] + 256 * data[97 + 2 * i] = amount[i]
            /\ \A i \in 98..105 : data[i] \in 0..255
            /\ unpack_from_slice(data) = Decoded(r)
            /\ unpack_from_slice(data).escrow.is_initialized = r.is_initialized
            /\ unpack_from_slice(data).escrow.expected_ammount = amount
            /\ unpack_unchecked(data) = Decoded(r)
            /\ r.is_initialized => unpack(data) = Decoded(r)

\* a record with the flag clear, a custody address other than the two around
\* it and the amount 0x0102030405060708 has been packed: byte 97 holds 8 and byte 104 holds 1
C14_Witness ==
    /\ last.op = "Pack"
    /\ last.res = "Ok"
    /\ ~last.args.is_initialized
    /\ last.args.expected_ammount = <<1800, 1286, 772, 258>>
    /\ last.args.initializer_pubkey # last.args.temp_token_account_pubkey
    /\ last.args.temp_token_account_pubkey
           # last.args.initializer_token_to_receive_account_pubkey
    /\ accounts[Escrow1].data[98] = 8
    /\ accounts[Escrow1].data[105] = 1
    /\ unpack_from_slice(accounts[Escrow1].data).escrow = last.args

(***************************************************************************)
(* C15: a buffer whose first byte is neither 0 nor 1 is never decoded.     *)
(* Escrow::unpack_unchecked and Escrow::unpack fail on it with             *)
(* InvalidAccountData whatever its length, and unpack_from_slice, which    *)
(* they call on buffers of LEN bytes, fails with InvalidAccountData on     *)
(* every such buffer of at least LEN bytes; none returns a record or       *)
(* another error.                                                          *)
(***************************************************************************)
C15_InvalidFlag ==
    (last.op = "Unpack" /\ Len(last.args) >= 1 /\ last.args[1] \notin {0, 1}) =>
        /\ last.res.unchecked = DecodeErr("InvalidAccountData")
        /\ last.res.checked = DecodeErr("InvalidAccountData")
        /\ Len(last.args) >= LEN
              => last.res.from_slice = DecodeErr("InvalidAccountData")

\* a packed record whose first byte has been overwritten with 2 has been
\* refused with InvalidAccountData
C15_Witness ==
    /\ last.op = "Unpack"
    /\ Len(last.args) = LEN
    /\ last.args[1] = 2
    /\ last.args[2] = CodecKey(1)[1]
    /\ last.res.from_slice.err = "InvalidAccountData"
    /\ last.res.checked.err = "InvalidAccountData"

\* the ledger or the host has refused the authority of a call
AuthorityRefused(tx) ==
    tx.res \in {"OwnerMismatch", "MissingRequiredSignature", "MissingAccount"}

(***************************************************************************)
(* C16: the authority Init gives the custody account to is the authority   *)
(* Exchange signs as.  A successful Init leaves the custody account owned  *)
(* by the address derived from the program's identity; an Exchange that    *)
(* has made its first transfer and is supplied a custody account owned by  *)
(* that address, and the address itself, is never refused for its          *)
(* authority when it releases and closes the custody account; and every    *)
(* Exchange that succeeds released a custody account owned by that         *)
(* address.  (That two derivations from one identity agree holds of any    *)
(* function and is not a property of a behaviour.)                         *)
(***************************************************************************)
C16_SameAuthority ==
    [][/\ (Processes("InitEscrow") /\ last'.res = "Ok")
            => accounts'[last'.args.temp].token.owner
                   = find_program_address(PROGRAM_ID).pda
       /\ (/\ Processes("Exchange")
           /\ Len(last'.log) >= 1
           /\ accounts[last'.args.temp].token.owner
                  = find_program_address(PROGRAM_ID).pda
           /\ last'.args.pda_account = find_program_address(PROGRAM_ID).pda)
            => ~AuthorityRefused(last')
       /\ (Processes("Exchange") /\ last'.res = "Ok")
            => accounts[last'.args.temp].token.owner
                   = find_program_address(PROGRAM_ID).pda]_vars

\* an Exchange has released and closed, as the derived address, the custody
\* account that the Init just before it had given to the derived address
C16_Witness ==
    /\ last.op = "Exchange"
    /\ last.res = "Ok"
    /\ last.prev_init = last.args.escrow
    /\ last.args.pda_account = find_program_address(PROGRAM_ID).pda
    /\ last.log[2] = "transfer_to_taker"
    /\ last.log[3] = "close_temp"
    /\ ~accounts[last.args.temp].token.initialized

\* the effects of an Exchange in the order of process_exchange
ExchangeOrder ==
    <<"transfer_to_initializer", "transfer_to_taker", "close_temp", "close_escrow">>

(***************************************************************************)
(* C17: within one Exchange the effects are issued in a fixed order: the   *)
(* transfer to the initializer's receive account, then the release of the  *)
(* custody balance to the taker, then the close of the custody account,    *)
(* then the credit of the escrow account's lamports and the clearing of    *)
(* its data.  The effects an Exchange has issued are always an initial     *)
(* part of that order: all four when it succeeds, and only those before    *)
(* the failing step when it fails, so no step follows a failed one.        *)
(***************************************************************************)
C17_EffectOrder ==
    [][Processes("Exchange")
       => /\ Len(last'.log) <= Len(ExchangeOrder)
          /\ last'.log = SubSeq(ExchangeOrder, 1, Len(last'.log))
          /\ last'.res = "Ok" <=> last'.log = ExchangeOrder]_vars

\* an Exchange whose custody close failed had issued both transfers and
\* nothing after them
C17_Witness ==
    /\ last.op = "Exchange"
    /\ last.res = "Overflow"
    /\ last.log = <<"transfer_to_initializer", "transfer_to_taker">>

\* the escrow account holds LEN bytes that decode to a record whose flag is clear
Uninitialized(acc, e) ==
    /\ unpack_unchecked(acc[e].data).err = "Ok"
    /\ ~unpack_unchecked(acc[e].data).escrow.is_initialized

(***************************************************************************)
(* C18: Exchange never trusts an uninitialized record.  When the escrow    *)
(* account's data decodes to a record with is_initialized = false, the     *)
(* Exchange fails before it issues any effect and no token or lamport      *)
(* balance changes, whatever the other 104 bytes hold, also when they name *)
(* the supplied initializer and receive accounts; when the taker signs and *)
(* the declared amount is the custody balance, the error is                *)
(* UninitializedAccount.                                                   *)
(***************************************************************************)
C18_UninitializedRecord ==
    [][(Processes("Exchange") /\ Uninitialized(accounts, last'.args.escrow))
       => /\ last'.res # "Ok"
          /\ last'.log = <<>>
          /\ accounts' = accounts
          /\ (/\ last'.args.is_signer
              /\ TokenAccountUnpack(accounts[last'.args.temp]) = "Ok"
              /\ accounts[last'.args.temp].token.amount = last'.args.amount)
                 => last'.res = "UninitializedAccount"]_vars

\* a signed Exchange on a custody account the derived address owns, with its
\* balance as the amount, has failed on data whose flag is clear and whose
\* other bytes name exactly the supplied initializer, custody and receive
\* accounts
C18_Witness ==
    LET r == unpack_unchecked(accounts[last.args.escrow].data).escrow
    IN  /\ last.op = "Exchange"
        /\ last.res = "UninitializedAccount"
        /\ last.args.is_signer
        /\ Uninitialized(accounts, last.args.escrow)
        /\ r.initializer_pubkey = last.args.main
        /\ r.initializer_token_to_receive_account_pubkey = last.args.irecv
        /\ r.temp_token_account_pubkey = last.args.temp
        /\ InCustody(accounts, last.args.temp)
        /\ accounts[last.args.temp].token.amount = last.args.amount
        /\ accounts[last.args.send].token.owner = last.args.signer

\* the custody account a live record names
CustodyOf(acc, e) == RecordOf(acc, e).escrow.temp_token_account_pubkey

\* e1 and e2 are two live escrows, each with its own custody account, and the
\* derived address owns the custody account of e2
TwoLiveEscrows(acc, e1, e2) ==
    /\ e1 # e2
    /\ RecordOf(acc, e1).err = "Ok"
    /\ RecordOf(acc, e2).err = "Ok"
    /\ CustodyOf(acc, e1) # CustodyOf(acc, e2)
    /\ InCustody(acc, CustodyOf(acc, e2))

(***************************************************************************)
(* C19 as stated: custody binding.  A successful Exchange on an escrow     *)
(* account releases and closes only the custody account whose address the  *)
(* record stores in temp_token_account_pubkey; in particular, with two     *)
(* live escrows E1 and E2, an Exchange on the record of E1 does not        *)
(* release tokens from, or close, the custody account of E2.               *)
(***************************************************************************)
C19_CustodyBinding ==
    [][(Processes("Exchange") /\ last'.res = "Ok")
       => \A e2 \in EscrowAccounts :
             TwoLiveEscrows(accounts, last'.args.escrow, e2)
                 => ~Released(accounts, accounts', CustodyOf(accounts, e2))]_vars

\* the sum over the accounts in keys of limb i of their lamports
RECURSIVE LimbSum(_, _, _)
LimbSum(acc, keys, i) ==
    IF keys = {} THEN 0
    ELSE LET k == CHOOSE x \in keys : TRUE
         IN  acc[k].lamports[i] + LimbSum(acc, keys \ {k}, i)

\* the lamports of all accounts together: five limbs, as the sum of several
\* u64 may exceed a u64
TotalLamports(acc) ==
    LET s1 == LimbSum(acc, AccountKeys, 1)
        s2 == LimbSum(acc, AccountKeys, 2) + (s1 \div LimbBase)
        s3 == LimbSum(acc, AccountKeys, 3) + (s2 \div LimbBase)
        s4 == LimbSum(acc, AccountKeys, 4) + (s3 \div LimbBase)
    IN  <<s1 % LimbBase, s2 % LimbBase, s3 % LimbBase, s4 % LimbBase,
          s4 \div LimbBase>>

(***************************************************************************)
(* C20: lamport conservation on Exchange.  When the initializer's main     *)
(* account, the custody account and the escrow account are three different *)
(* accounts, a successful Exchange leaves the main account with its        *)
(* lamports before plus the custody account's before plus the escrow       *)
(* account's before, leaves the custody and the escrow account with 0      *)
(* lamports, and changes no other account's lamports; the sum over all     *)
(* accounts is as before.                                                  *)
(***************************************************************************)
C20_LamportConservation ==
    [][(/\ Processes("Exchange")
        /\ last'.res = "Ok"
        /\ last'.args.main # last'.args.temp
        /\ last'.args.main # last'.args.escrow
        /\ last'.args.temp # last'.args.escrow)
       => LET a == last'.args
              main == accounts[a.main].lamports
              custody == accounts[a.temp].lamports
              escrow == accounts[a.escrow].lamports
          IN  /\ checked_add(main, custody).some
              /\ checked_add(Plus(main, custody), escrow).some
              /\ accounts'[a.main].lamports = Plus(Plus(main, custody), escrow)
              /\ accounts'[a.temp].lamports = U64(0)
              /\ accounts'[a.escrow].lamports = U64(0)
              /\ \A k \in AccountKeys \ {a.main, a.temp, a.escrow} :
                    accounts'[k].lamports = accounts[k].lamports
              /\ TotalLamports(accounts') = TotalLamports(accounts)]_vars

\* Bob has taken an escrow of Alice, whose wallet held 1000000 lamports: it
\* now holds those, the custody account's rent and the escrow account's rent
C20_Witness ==
    /\ last.op = "Exchange"
    /\ last.res = "Ok"
    /\ last.args.signer = Bob
    /\ last.args.main = Alice
    /\ accounts[Alice].lamports = Plus(Plus(U64(1000000), TokenRent), EscrowRent)
    /\ accounts[last.args.temp].lamports = U64(0)
    /\ accounts[last.args.escrow].lamports = U64(0)
    /\ accounts[Bob].lamports = U64(1000000)

====
